---------------------------- MODULE Spec2Model ----------------------------
(***************************************************************************)
(* Model of graph-wasm/src/lib.rs: build_lanes / build_lanes_inner.        *)
(*                                                                         *)
(* One invocation runs through: deserialize, commit index + readiness      *)
(* counters + heap seeding, the scheduler loop (one pop per step), the     *)
(* fallback append, lane allocation (assign step and free step per         *)
(* commit), edge construction, encoding, and the catch_unwind boundary.    *)
(*                                                                         *)
(* Conventions:                                                            *)
(*   - identifiers (sha strings) are small naturals: two identifiers are   *)
(*     the same string iff they are the same number; 0 is an identifier    *)
(*     that no record carries (a reference outside the set);               *)
(*   - commit indices are 0-based as in the source; Commit(i) reads        *)
(*     commits[i];                                                         *)
(*   - Option<usize> is <<>> for None and <<v>> for Some(v);               *)
(*   - a usize is a pair <<hi, lo>> of 16-bit halves (wasm32: 32 bits), so *)
(*     that the widening cast of a u16 keeps its width;                    *)
(*   - the byte buffer is a sequence of fields [ty, num, den], the value   *)
(*     of a field being num/den and its width Width(ty) bytes.             *)
(***************************************************************************)
EXTENDS Integers, Sequences, FiniteSets, TLC

\* ------------------------------------------------------------- bounds
MaxN == 3
MaxRefs == 3
MaxTs == 2
MaxRuns == 2
MaxConcN == 2

\* -------------------------------------------------- program constants
U16_MAX == 65535
HalfMax == 65535
U16_MOD == 65536

VARIABLES
    json,       \* the input text handed to build_lanes (json_commits)
    pc,         \* position of the invocation
    commits,    \* Vec<CommitIn>
    map,        \* IndexMap<String, usize>
    indeg,      \* Vec<usize>, readiness counters
    heap,       \* BinaryHeap<(Reverse<i64>, Reverse<usize>, usize)>
    topo,       \* Vec<usize>, visitation order
    visited,    \* HashSet<usize>
    queued,     \* Len(topo) when the queue loop ended (history)
    active,     \* Vec<Option<usize>>
    lane_of,    \* Vec<u16>
    pos,        \* cursor of the lane allocation loop over topo
    edges,      \* Vec<(u32, u32)>
    buf,        \* Vec<u8> under construction
    fault,      \* a panic was raised in this invocation (history)
    result,     \* what build_lanes returned to its caller
    run,        \* number of the invocation (1-based)
    prev,       \* what the previous invocation on this input returned
    caller,     \* what the caller keeps between and beside its invocations
    \* handlers/branches.rs: the fetch cooldown of get_branches
    tracker,        \* FETCH_TRACKER: HashMap<String, Instant>
    tracker_lock,   \* the Mutex around it: <<>> or <<holder>>
    clock,          \* the monotonic clock Instant::now() reads, in seconds
    requests,       \* the get_branches requests in flight, by handler task
    fetch_log,      \* the should_fetch decisions made so far (history)
    \* handlers/commits.rs: get_commits_all_branches
    agg_pc,         \* position of the handler
    limit,          \* params.limit: Option<usize>
    max_total,      \* params.limit.unwrap_or(2000)
    branches,       \* branch_info.branches
    workers,        \* the rayon closures of par_iter, by branch
    combined,       \* HashMap<String, (Commit, HashSet<String>)>
    combined_lock,  \* the Mutex around it: <<>> or <<holder>>
    all_commits     \* the response: <<>> for none yet, else <<outcome>>

\* FETCH_TRACKER and the handlers that use it.
fetch_vars == <<tracker, tracker_lock, clock, requests, fetch_log>>
\* The all-branches aggregation.
agg_vars == <<agg_pc, limit, max_total, branches, workers, combined, combined_lock,
              all_commits>>
\* The state of the server side, which build_lanes never touches.
server == <<fetch_vars, agg_vars>>
\* The state of build_lanes and its caller, which the server never touches.
lanes_vars == <<json, pc, commits, map, indeg, heap, topo, visited, queued,
                active, lane_of, pos, edges, buf, fault, result, run, prev,
                caller>>

vars == <<json, pc, commits, map, indeg, heap, topo, visited, queued,
          active, lane_of, pos, edges, buf, fault, result, run, prev,
          caller, server>>

\* ------------------------------------------------------------- inputs

ParentIds == 0..MaxN
Timestamps == 1..MaxTs

RECURSIVE SumLens(_)
SumLens(s) == IF s = <<>> THEN 0 ELSE Len(Head(s).parents) + SumLens(Tail(s))

MaxSha(s) == IF s = <<>> THEN 0
             ELSE CHOOSE m \in {s[k].sha : k \in 1..Len(s)} :
                     \A k \in 1..Len(s) : s[k].sha <= m

ParentLists(n) == UNION {[1..k -> ParentIds] : k \in 0..n}

\* The array elements a caller may add after the elements s: identifiers
\* are named in order of first appearance, and the whole array holds at most
\* MaxRefs parent entries.
NextElems(s) ==
    [sha : 1..(IF MaxSha(s) < MaxN THEN MaxSha(s) + 1 ELSE MaxN),
     parents : ParentLists(MaxRefs - SumLens(s)),
     timestamp : Timestamps,
     shape : {"commit"}]

\* "commit": the required fields only; "commit_meta": author and message too.
GoodShapes == {"commit", "commit_meta"}
BadShapes == {"missing_sha", "missing_parents", "missing_timestamp",
              "timestamp_not_integer"}

EmptyArray == [kind |-> "array", elems |-> <<>>]
NotArrays == {[kind |-> k, elems |-> <<>>] : k \in {"not_json", "not_array"}}

\* -------------------------------------------------------- deserialize

\* Mutant of ParseError: a missing timestamp is defaulted instead of refused.
ParseErrorLenient(text) ==
    IF text.kind = "not_json" THEN "expected value at line 1 column 1"
    ELSE IF text.kind = "not_array"
    THEN "invalid type: map, expected a sequence at line 1 column 0"
    ELSE IF \E k \in 1..Len(text.elems) :
                text.elems[k].shape \notin GoodShapes \cup {"missing_timestamp"}
    THEN "missing field"
    ELSE ""

\* serde_json::from_str::<Vec<CommitIn>>: the first thing that does not fit
\* decides the error; "" when the text is an array of commit objects.
ParseError(text) ==
    IF text.kind = "not_json" THEN "expected value at line 1 column 1"
    ELSE IF text.kind = "not_array"
    THEN "invalid type: map, expected a sequence at line 1 column 0"
    ELSE LET bad == {k \in 1..Len(text.elems) : text.elems[k].shape \notin GoodShapes}
         IN IF bad = {} THEN ""
            ELSE LET k == CHOOSE x \in bad : \A y \in bad : x <= y
                     sh == text.elems[k].shape
                 IN CASE sh = "missing_sha" -> "missing field sha"
                      [] sh = "missing_parents" -> "missing field parents"
                      [] sh = "missing_timestamp" -> "missing field timestamp"
                      [] OTHER -> "invalid type: string, expected i64"

\* The Vec<CommitIn> of a text that parses: author and message are kept by
\* no later step, so the record is (sha, parents, timestamp).
ParsedCommits(text) ==
    [k \in 1..Len(text.elems) |->
        [sha |-> text.elems[k].sha,
         parents |-> text.elems[k].parents,
         timestamp |-> text.elems[k].timestamp]]

\* ------------------------------------------------------------ results

Pending == [kind |-> "pending", msg |-> "", buf |-> <<>>]
Ok(b) == [kind |-> "ok", msg |-> "", buf |-> b]
Err(m) == [kind |-> "err", msg |-> m, buf |-> <<>>]

PanicMarker == "panic in build_lanes"
PanicMsg == PanicMarker \o ": Any { .. }"
EdgeMarker == "Edge index out of bounds"
EdgeMsg(from, to, len) ==
    EdgeMarker \o ": from=" \o ToString(from) \o " to=" \o ToString(to)
               \o " len=" \o ToString(len)

\* ------------------------------------------------------- commit index

N == Len(commits)
Commit(i) == commits[i + 1]
Indices == 0..(N - 1)

EmptyMap == [x \in {} |-> 0]
\* Mutant of MapInsert: a key already bound keeps its first index.
MapInsertKeepFirst(m, k, v) ==
    IF k \in DOMAIN m THEN m
    ELSE [x \in DOMAIN m \cup {k} |-> IF x = k THEN v ELSE m[x]]

MapInsert(m, k, v) == [x \in DOMAIN m \cup {k} |-> IF x = k THEN v ELSE m[x]]

\* map.insert(c.sha.clone(), i) for the first n records, in input order.
RECURSIVE BuildMap(_, _)
BuildMap(cs, n) ==
    IF n = 0 THEN EmptyMap
    ELSE MapInsert(BuildMap(cs, n - 1), cs[n].sha, n - 1)

\* Mutant of MapGet: an identifier without a binding resolves to index 0.
MapGetOrZero(m, p) == IF p \in DOMAIN m THEN <<m[p]>> ELSE <<0>>

\* map.get(p): <<>> for None, <<pid>> for Some(pid).
MapGet(m, p) == IF p \in DOMAIN m THEN <<m[p]>> ELSE <<>>

\* The (record index, parent identifier) pairs in the order of the nested
\* loops "for c in commits / for p in c.parents".
RECURSIVE ParentRefs(_, _)
ParentRefs(cs, n) ==
    IF n = 0 THEN <<>>
    ELSE ParentRefs(cs, n - 1)
         \o [k \in 1..Len(cs[n].parents) |-> <<n - 1, cs[n].parents[k]>>]

\* Mutant of CountIndeg: a parent named several times by one commit is
\* counted once for that commit.
RECURSIVE CountIndegDistinct(_, _, _)
CountIndegDistinct(refs, m, d) ==
    IF refs = <<>> THEN d
    ELSE LET g == MapGet(m, Head(refs)[2])
             again == \E k \in 2..Len(refs) :
                         /\ refs[k][1] = Head(refs)[1]
                         /\ MapGet(m, refs[k][2]) = g
         IN CountIndegDistinct(Tail(refs), m,
                IF g # <<>> /\ ~again THEN [d EXCEPT ![g[1]] = @ + 1] ELSE d)

\* indeg[pid] += 1 for every parent entry that resolves.
RECURSIVE CountIndeg(_, _, _)
CountIndeg(refs, m, d) ==
    IF refs = <<>> THEN d
    ELSE LET g == MapGet(m, Head(refs)[2])
         IN CountIndeg(Tail(refs), m,
                       IF g # <<>> THEN [d EXCEPT ![g[1]] = @ + 1] ELSE d)

\* ---------------------------------------------------------- scheduler

\* A heap entry (Reverse(timestamp), Reverse(i), i).
Entry(cs, i) == [t |-> cs[i + 1].timestamp, ins |-> i, idx |-> i]

\* Mutant of EntryLess: the timestamp is not reversed (newest first).
EntryLessNewestFirst(e, f) ==
    \/ e.t < f.t
    \/ e.t = f.t /\ e.ins > f.ins
    \/ e.t = f.t /\ e.ins = f.ins /\ e.idx < f.idx

\* Mutant of EntryLess: the index is not reversed (higher index first).
EntryLessHigherIndexFirst(e, f) ==
    \/ e.t > f.t
    \/ e.t = f.t /\ e.ins < f.ins
    \/ e.t = f.t /\ e.ins = f.ins /\ e.idx < f.idx

\* The derived Ord of the tuple: Reverse compares the other way round.
EntryLess(e, f) ==
    \/ e.t > f.t
    \/ e.t = f.t /\ e.ins > f.ins
    \/ e.t = f.t /\ e.ins = f.ins /\ e.idx < f.idx

\* Mutant of PopChoices: an unordered container, any entry may come out.
PopAny(h) == 1..Len(h)

\* The positions BinaryHeap::pop may return: those of a greatest entry.
PopChoices(h) == {k \in 1..Len(h) : \A j \in 1..Len(h) : ~EntryLess(h[k], h[j])}

RemoveAt(s, k) == [j \in 1..(Len(s) - 1) |-> IF j < k THEN s[j] ELSE s[j + 1]]

\* Mutant of SeedHeap: every commit is seeded, whatever its counter.
RECURSIVE SeedAll(_, _, _)
SeedAll(cs, d, n) ==
    IF n = 0 THEN <<>> ELSE Append(SeedAll(cs, d, n - 1), Entry(cs, n - 1))

\* Heap seeding: every commit whose counter is zero, in index order.
RECURSIVE SeedHeap(_, _, _)
SeedHeap(cs, d, n) ==
    IF n = 0 THEN <<>>
    ELSE LET h == SeedHeap(cs, d, n - 1)
         IN IF d[n - 1] = 0 THEN Append(h, Entry(cs, n - 1)) ELSE h

\* Mutant of PushOnZero: the parent is pushed at every decrement.
PushAlways(cs, h, pid, c) == Append(h, Entry(cs, pid))

\* The pushes a decrement of pid's counter from c asks for.
PushOnZero(cs, h, pid, c) == IF c = 0 THEN Append(h, Entry(cs, pid)) ELSE h

\* Mutant of Relax: no "indeg > 0" guard and no test for zero; the counter
\* saturates and the parent is pushed every time.
RECURSIVE RelaxUnguarded(_, _, _, _, _)
RelaxUnguarded(cs, m, ps, d, h) ==
    IF ps = <<>> THEN <<d, h>>
    ELSE LET g == MapGet(m, Head(ps))
         IN IF g # <<>>
            THEN RelaxUnguarded(cs, m, Tail(ps),
                     [d EXCEPT ![g[1]] = IF @ > 0 THEN @ - 1 ELSE 0],
                     Append(h, Entry(cs, g[1])))
            ELSE RelaxUnguarded(cs, m, Tail(ps), d, h)

\* The inner loop of a pop over the popped commit's parents ps: <<indeg, heap>>.
RECURSIVE Relax(_, _, _, _, _)
Relax(cs, m, ps, d, h) ==
    IF ps = <<>> THEN <<d, h>>
    ELSE LET g == MapGet(m, Head(ps))
         IN IF g # <<>> /\ d[g[1]] > 0
            THEN Relax(cs, m, Tail(ps), [d EXCEPT ![g[1]] = @ - 1],
                       PushOnZero(cs, h, g[1], d[g[1]] - 1))
            ELSE Relax(cs, m, Tail(ps), d, h)

\* Mutant of Remaining: the unvisited indices in descending order.
RECURSIVE RemainingDescending(_, _)
RemainingDescending(vis, n) ==
    IF n = 0 THEN <<>>
    ELSE LET r == RemainingDescending(vis, n - 1)
         IN IF (n - 1) \notin vis THEN <<n - 1>> \o r ELSE r

\* The unvisited indices below n in ascending order.
RECURSIVE Remaining(_, _)
Remaining(vis, n) ==
    IF n = 0 THEN <<>>
    ELSE LET r == Remaining(vis, n - 1)
         IN IF (n - 1) \notin vis THEN Append(r, n - 1) ELSE r

\* Mutant of WithRemaining: the unvisited commits are not appended.
NoFallback(order, vis, n) == order

\* Mutant of WithRemaining: the unvisited commits are put in front.
RemainingFirst(order, vis, n) ==
    IF Len(order) # n THEN Remaining(vis, n) \o order ELSE order

\* Lines 86-92: the order after the queue loop.
WithRemaining(order, vis, n) ==
    IF Len(order) # n THEN order \o Remaining(vis, n) ELSE order

\* ----------------------------------------------------- lane allocator

\* "x as usize" of a u16, and usize::MAX, as <<high half, low half>>.
AsUsize(v) == <<0, v>>
USIZE_MAX == <<HalfMax, HalfMax>>
\* A Vec index or length (below 2^16 here) as a usize.
UsizeOf(n) == <<n \div U16_MOD, n % U16_MOD>>
\* Mutant of AsU16: the high half of the usize is kept instead of the low.
AsU16High(u) == u[1]

\* "x as u16" of a usize: the low 16 bits.
AsU16(u) == u[2]
\* Mutant of InBounds: indexing is unchecked.
InBoundsUnchecked(u, len) == TRUE

\* Whether the usize u indexes a Vec of len elements; At(u) is that place.
InBounds(u, len) == u[1] = 0 /\ u[2] < len
At(u) == u[2] + 1

\* Mutant of IsAssignedLane: the lane is compared with the widened u16
\* sentinel, so a parent without a lane fails the test.
IsAssignedLaneU16(l) == l # AsUsize(U16_MAX)

\* The occupancy test of lines 103 and 127 on the widened lane value.
IsAssignedLane(l) == l # USIZE_MAX

\* Lines 100-108: the lane of the first resolvable parent that passes the
\* occupancy test, as Option<usize>.
RECURSIVE PreferParentLane(_, _, _)
PreferParentLane(m, ps, lanes) ==
    IF ps = <<>> THEN <<>>
    ELSE LET g == MapGet(m, Head(ps))
         IN IF g # <<>> /\ IsAssignedLane(AsUsize(lanes[g[1]]))
            THEN <<AsUsize(lanes[g[1]])>>
            ELSE PreferParentLane(m, Tail(ps), lanes)

\* Lines 110-115: the lowest empty slot, as Option<usize>.
FirstFree(act) ==
    LET free == {li \in 0..(Len(act) - 1) : act[li + 1] = <<>>}
    IN IF free = {} THEN <<>>
       ELSE <<UsizeOf(CHOOSE li \in free : \A lj \in free : li <= lj)>>

\* Lines 99-116: parent lane first, else the lowest empty slot, else None.
ChooseLane(m, ps, lanes, act) ==
    LET a == PreferParentLane(m, ps, lanes)
    IN IF a = <<>> THEN FirstFree(act) ELSE a

\* Lines 124-131: the free step over the parents ps; fault is set when an
\* index into active is out of bounds (the slots freed before it stay freed).
RECURSIVE FreeLanes(_, _, _, _)
FreeLanes(m, ps, lanes, act) ==
    IF ps = <<>> THEN [active |-> act, fault |-> FALSE]
    ELSE LET g == MapGet(m, Head(ps))
         IN IF g # <<>> /\ IsAssignedLane(AsUsize(lanes[g[1]]))
            THEN LET lp == AsUsize(lanes[g[1]])
                 IN IF InBounds(lp, Len(act))
                    THEN FreeLanes(m, Tail(ps), lanes, [act EXCEPT ![At(lp)] = <<>>])
                    ELSE [active |-> act, fault |-> TRUE]
            ELSE FreeLanes(m, Tail(ps), lanes, act)

\* ------------------------------------------------------ edges, encoder

\* Mutant of BuildEdgeList: the parent index is taken one too high.
RECURSIVE BuildEdgeListOneBased(_, _)
BuildEdgeListOneBased(refs, m) ==
    IF refs = <<>> THEN <<>>
    ELSE LET g == MapGet(m, Head(refs)[2])
         IN (IF g # <<>> THEN <<<<Head(refs)[1], g[1] + 1>>>> ELSE <<>>)
            \o BuildEdgeListOneBased(Tail(refs), m)

\* Lines 135-142: (child index, parent index) of every entry that resolves.
RECURSIVE BuildEdgeList(_, _)
BuildEdgeList(refs, m) ==
    IF refs = <<>> THEN <<>>
    ELSE LET g == MapGet(m, Head(refs)[2])
         IN (IF g # <<>> THEN <<<<Head(refs)[1], g[1]>>>> ELSE <<>>)
            \o BuildEdgeList(Tail(refs), m)

\* The fields written: a lane "as f32" and a timestamp "as f64" are exact
\* for the values reached here (below 2^24 and 2^53).
U16(v) == [ty |-> "u16", num |-> v, den |-> 1]
U32(v) == [ty |-> "u32", num |-> v, den |-> 1]
F32(n, d) == [ty |-> "f32", num |-> n, den |-> d]
F64(v) == [ty |-> "f64", num |-> v, den |-> 1]
Width(ty) == CASE ty = "u16" -> 2 [] ty = "u32" -> 4 [] ty = "f32" -> 4 [] OTHER -> 8

RECURSIVE ByteLen(_)
ByteLen(b) == IF b = <<>> THEN 0 ELSE Width(Head(b).ty) + ByteLen(Tail(b))

\* Lines 149-150.
Header(cs, es) == <<U32(Len(cs)), U32(Len(es))>>

\* Mutant of CommitTable: the records are written in input order instead
\* of the visitation order.
RECURSIVE CommitTableInputOrder(_, _, _, _)
CommitTableInputOrder(order, lanes, cs, k) ==
    IF k = 0 THEN <<>>
    ELSE CommitTableInputOrder(order, lanes, cs, k - 1)
         \o <<U16(lanes[k - 1]), U32(k - 1), F64(cs[k].timestamp)>>

\* Lines 152-157: the records of the first k entries of the order.
RECURSIVE CommitTable(_, _, _, _)
CommitTable(order, lanes, cs, k) ==
    IF k = 0 THEN <<>>
    ELSE CommitTable(order, lanes, cs, k - 1)
         \o <<U16(lanes[order[k]]), U32(k - 1), F64(cs[order[k] + 1].timestamp)>>

\* Mutant of EdgeTable: the parent's lane is written before the child's.
RECURSIVE EdgeTableParentLaneFirst(_, _, _, _)
EdgeTableParentLaneFirst(es, lanes, len, b) ==
    IF es = <<>> THEN [err |-> "", buf |-> b]
    ELSE LET from == Head(es)[1]
             to == Head(es)[2]
         IN IF from >= len \/ to >= len
            THEN [err |-> EdgeMsg(from, to, len), buf |-> b]
            ELSE EdgeTableParentLaneFirst(Tail(es), lanes, len,
                     b \o <<U32(from), U32(to), F32(lanes[to], 1), F32(1, 2),
                            F32(lanes[from], 1), F32(1, 2)>>)

\* Lines 159-176: the edge records after the bytes b; err is the message of
\* the bounds check when it fails.
RECURSIVE EdgeTable(_, _, _, _)
EdgeTable(es, lanes, len, b) ==
    IF es = <<>> THEN [err |-> "", buf |-> b]
    ELSE LET from == Head(es)[1]
             to == Head(es)[2]
         IN IF from >= len \/ to >= len
            THEN [err |-> EdgeMsg(from, to, len), buf |-> b]
            ELSE EdgeTable(Tail(es), lanes, len,
                     b \o <<U32(from), U32(to), F32(lanes[from], 1), F32(1, 2),
                            F32(lanes[to], 1), F32(1, 2)>>)

\* ------------------------------- handlers/branches.rs: fetch cooldown

\* Minimum time between fetches of one repository, in seconds.
FETCH_COOLDOWN == 60

\* The clock runs up to MaxClock seconds in steps of TickSteps; at most
\* MaxCalls requests are made.
MaxClock == 62
MaxCalls == 5
TickSteps == {29, 31}

\* The repository keys requested and the tasks that serve requests.
RepoKeys == {"repo_a", "repo_b"}
Tasks == {"t1", "t2"}

\* A task that serves no request.
IdleRequest == [pc |-> "idle", repo_key |-> "repo_a", auto_fetch |-> FALSE,
                now |-> 0, ret |-> FALSE]

\* now.duration_since(last): zero when last is later than now.
DurationSince(now, last) == IF now >= last THEN now - last ELSE 0

\* The requests made so far: decided or in flight.
Started == Len(fetch_log) + Cardinality({t \in Tasks : requests[t].pc # "idle"})

FetchInit ==
    /\ tracker = EmptyMap
    /\ tracker_lock = <<>>
    /\ clock = 0
    /\ requests = [t \in Tasks |-> IdleRequest]
    /\ fetch_log = <<>>

\* ------------------- handlers/commits.rs: all-branches aggregation

\* The limits of lines 122, 130 and 134-135.
DEFAULT_LIMIT == 2000
MIN_PER_BRANCH == 50
MAX_PER_BRANCH == 500

\* The repository has up to MaxShas commits, a branch history of up to
\* MaxHist of them is fetched, and a request names a limit up to MaxLimit.
MaxShas == 3
MaxHist == 2
MaxLimit == 2

\* What get_branch_info may list, the commits of the repository and their
\* dates (commits 1 and 2 have the same date).
AllBranches == {"main", "dev", "feat"}
Shas == 1..MaxShas
DateOf(sha) == (sha + 1) \div 2

\* params.limit, as Option<usize>.
Limits == {<<>>} \cup {<<n>> : n \in 1..MaxLimit}

\* What get_commits_local may return for a branch before the per-branch
\* limit applies: a walk over distinct commits.
Histories ==
    {h \in UNION {[1..n -> Shas] : n \in 0..MaxHist} :
        \A i, j \in 1..Len(h) : i # j => h[i] # h[j]}

\* Lines 123-136.
PerBranchLimit(total, count) ==
    LET branch_count == IF count > 1 THEN count ELSE 1
        q == total \div branch_count
        l == IF q > MIN_PER_BRANCH THEN q ELSE MIN_PER_BRANCH
    IN IF l > MAX_PER_BRANCH THEN MAX_PER_BRANCH ELSE l

\* The first n elements of s (revwalk.take(n), Vec::truncate(n)).
Take(s, n) == SubSeq(s, 1, IF n < Len(s) THEN n ELSE Len(s))

\* A rayon closure that has not run yet.
NewWorker == [pc |-> "fetch", commits_for_branch |-> <<>>, i |-> 1]

\* The sequences Vec<Commit> can be after into_values().collect() and the
\* sort, newest first, of the values of map m: any order of the keys that
\* the dates do not contradict.
SortedValues(m) ==
    {s \in [1..Cardinality(DOMAIN m) -> DOMAIN m] :
        /\ \A i, j \in 1..Len(s) : i # j => s[i] # s[j]
        /\ \A i, j \in 1..Len(s) : i < j => DateOf(s[i]) >= DateOf(s[j])}

AggInit ==
    /\ agg_pc = "idle"
    /\ limit = <<>>
    /\ max_total = 0
    /\ branches = {}
    /\ workers = <<>>
    /\ combined = EmptyMap
    /\ combined_lock = <<>>
    /\ all_commits = <<>>

\* ------------------------------------------------------------ actions

\* Everything one invocation owns: its argument, its position, the locals of
\* build_lanes_inner and its return value.
Ctx == <<json, pc, commits, map, indeg, heap, topo, visited, queued, active,
         lane_of, pos, edges, buf, fault, result>>

\* The context of an invocation on text that has not taken a step yet.
FreshCtx(text) == <<text, "start", <<>>, EmptyMap, <<>>, <<>>, <<>>, {}, 0, <<>>,
                    <<>>, 0, <<>>, <<>>, FALSE, Pending>>

\* The caller's own record: how it invokes (mode), the text of its first
\* invocation (given), what invocations A and B returned when each ran
\* alone, and, while two invocations run concurrently, which one is taking
\* steps (live) and the context of the one that is not (parked). hook is
\* the one thing of the process an invocation writes (line 32): whether the
\* panic hook is installed; set_once installs it at most once and the
\* computation never reads it.
PlainCaller == [mode |-> "plain", given |-> EmptyArray, alone_a |-> Pending,
                alone_b |-> Pending, live |-> "A", parked |-> FreshCtx(EmptyArray),
                hook |-> FALSE]

\* The identifiers some element of the array carries.
ShasOf(text) == {text.elems[k].sha : k \in 1..Len(text.elems)}

\* The text with every parent identifier that no element carries removed.
StripUnresolved(text) ==
    [text EXCEPT !.elems =
        [k \in 1..Len(text.elems) |->
            [text.elems[k] EXCEPT !.parents =
                SelectSeq(@, LAMBDA p : p \in ShasOf(text))]]]

\* Another text of the caller's: the same elements in reverse order.
Reversed(text) ==
    [text EXCEPT !.elems =
        [k \in 1..Len(text.elems) |-> text.elems[Len(text.elems) + 1 - k]]]

Init ==
    /\ json \in {EmptyArray} \cup NotArrays
    /\ pc = "compose"
    /\ commits = <<>>
    /\ map = EmptyMap
    /\ indeg = <<>>
    /\ heap = <<>>
    /\ topo = <<>>
    /\ visited = {}
    /\ queued = 0
    /\ active = <<>>
    /\ lane_of = <<>>
    /\ pos = 0
    /\ edges = <<>>
    /\ buf = <<>>
    /\ fault = FALSE
    /\ result = Pending
    /\ run = 1
    /\ prev = Pending
    /\ caller = PlainCaller
    /\ FetchInit
    /\ AggInit

\* The caller writes one more record into the array it will pass.
AddRecord ==
    /\ pc = "compose"
    /\ json.kind = "array"
    /\ Len(json.elems) < MaxN
    /\ \E e \in NextElems(json.elems) :
          json' = [json EXCEPT !.elems = Append(@, e)]
    /\ UNCHANGED <<pc, commits, map, indeg, heap, topo, visited, queued,
                   active, lane_of, pos, edges, buf, result, fault, run, prev,
                   caller, server>>

\* The caller passes an array (one without parent entries) in which one
\* element has another shape: author and message present, or a required
\* field missing or mistyped.
InvokeReshaped ==
    /\ pc = "compose"
    /\ SumLens(json.elems) = 0
    /\ \E k \in 1..Len(json.elems), sh \in {"commit_meta"} \cup BadShapes :
          json' = [json EXCEPT !.elems[k].shape = sh]
    /\ pc' = "start"
    /\ UNCHANGED <<commits, map, indeg, heap, topo, visited, queued,
                   active, lane_of, pos, edges, buf, result, fault, run, prev,
                   caller, server>>

\* The caller calls build_lanes(json).
Invoke ==
    /\ pc = "compose"
    /\ pc' = "start"
    /\ UNCHANGED <<json, commits, map, indeg, heap, topo, visited, queued,
                   active, lane_of, pos, edges, buf, result, fault, run, prev,
                   caller, server>>

\* Lines 32-40: the panic hook is installed if it is not yet; the text
\* deserializes, or its error is returned at once.
Deserialize ==
    /\ pc = "start"
    /\ IF ParseError(json) # ""
       THEN /\ result' = Err(ParseError(json))
            /\ pc' = "done"
            /\ UNCHANGED commits
       ELSE /\ commits' = ParsedCommits(json)
            /\ pc' = "index"
            /\ UNCHANGED result
    /\ caller' = [caller EXCEPT !.hook = TRUE]
    /\ UNCHANGED <<json, map, indeg, heap, topo, visited, queued, active,
                   lane_of, pos, edges, buf, fault, run, prev, server>>

\* Lines 42-68: the identifier map, the readiness counters, the seeded heap.
BuildIndex ==
    /\ pc = "index"
    /\ LET m == BuildMap(commits, N)
           d == CountIndeg(ParentRefs(commits, N), m, [i \in Indices |-> 0])
       IN /\ map' = m
          /\ indeg' = d
          /\ heap' = SeedHeap(commits, d, N)
    /\ pc' = "sched"
    /\ UNCHANGED <<json, commits, topo, visited, queued, active, lane_of, pos,
                   edges, buf, result, fault, run, prev,
                   caller, server>>

\* Lines 70-84: one iteration of the queue loop.
Pop ==
    /\ pc = "sched"
    /\ \E k \in PopChoices(heap) :
          LET idx == heap[k].idx
              r == Relax(commits, map, Commit(idx).parents, indeg, RemoveAt(heap, k))
          IN /\ topo' = Append(topo, idx)
             /\ visited' = visited \cup {idx}
             /\ indeg' = r[1]
             /\ heap' = r[2]
    /\ UNCHANGED <<json, pc, commits, map, queued, active, lane_of, pos, edges,
                   buf, result, fault, run, prev,
                   caller, server>>

\* Lines 85-96: the queue is empty; the unvisited commits are appended and
\* lane allocation starts.
AppendRemaining ==
    /\ pc = "sched"
    /\ heap = <<>>
    /\ queued' = Len(topo)
    /\ topo' = WithRemaining(topo, visited, N)
    /\ active' = <<>>
    /\ lane_of' = [i \in Indices |-> U16_MAX]
    /\ pos' = 0
    /\ pc' = IF Len(topo') = 0 THEN "edges" ELSE "assign"
    /\ UNCHANGED <<json, commits, map, indeg, heap, visited, edges, buf,
                   result, fault, run, prev,
                   caller, server>>

\* Lines 97-122: the commit at the cursor gets its lane and occupies it.
AssignLane ==
    /\ pc = "assign"
    /\ LET ci == topo[pos + 1]
           assigned == ChooseLane(map, Commit(ci).parents, lane_of, active)
           grown == IF assigned = <<>> THEN Append(active, <<>>) ELSE active
           lane_idx == IF assigned = <<>> THEN UsizeOf(Len(grown) - 1)
                       ELSE assigned[1]
       IN /\ lane_of' = [lane_of EXCEPT ![ci] = AsU16(lane_idx)]
          /\ IF InBounds(lane_idx, Len(grown))
             THEN /\ active' = [grown EXCEPT ![At(lane_idx)] = <<ci>>]
                  /\ pc' = "free"
                  /\ UNCHANGED fault
             ELSE /\ active' = grown
                  /\ pc' = "unwinding"
                  /\ fault' = TRUE
    /\ UNCHANGED <<json, commits, map, indeg, heap, topo, visited, queued, pos,
                   edges, buf, result, run, prev,
                   caller, server>>

\* Lines 123-132: the lanes of the commit's parents are freed and the cursor
\* moves on.
FreeParentLanes ==
    /\ pc = "free"
    /\ LET ci == topo[pos + 1]
           f == FreeLanes(map, Commit(ci).parents, lane_of, active)
       IN /\ active' = f.active
          /\ IF f.fault
             THEN /\ pc' = "unwinding"
                  /\ fault' = TRUE
                  /\ UNCHANGED pos
             ELSE /\ pos' = pos + 1
                  /\ pc' = IF pos + 1 = Len(topo) THEN "edges" ELSE "assign"
                  /\ UNCHANGED fault
    /\ UNCHANGED <<json, commits, map, indeg, heap, topo, visited, queued,
                   lane_of, edges, buf, result, run, prev,
                   caller, server>>

\* Lines 134-142.
BuildEdges ==
    /\ pc = "edges"
    /\ edges' = BuildEdgeList(ParentRefs(commits, N), map)
    /\ pc' = "encode"
    /\ UNCHANGED <<json, commits, map, indeg, heap, topo, visited, queued,
                   active, lane_of, pos, buf, result, fault, run, prev,
                   caller, server>>

\* Lines 144-178: the buffer is written and returned, or the bounds check
\* returns its error.
Encode ==
    /\ pc = "encode"
    /\ LET e == EdgeTable(edges, lane_of, N,
                    Header(commits, edges)
                    \o CommitTable(topo, lane_of, commits, Len(topo)))
       IN /\ buf' = e.buf
          /\ result' = IF e.err # "" THEN Err(e.err) ELSE Ok(e.buf)
    /\ pc' = "done"
    /\ UNCHANGED <<json, commits, map, indeg, heap, topo, visited, queued,
                   active, lane_of, pos, edges, fault, run, prev,
                   caller, server>>

\* Mutant of CatchUnwind: the panic is not caught and leaves build_lanes.
PanicPropagates ==
    /\ pc = "unwinding"
    /\ pc' = "aborted"
    /\ UNCHANGED <<json, commits, map, indeg, heap, topo, visited, queued,
                   active, lane_of, pos, edges, buf, fault, result, run, prev,
                   caller, server>>

\* Lines 34-35: a panic unwinding out of build_lanes_inner is caught and
\* returned as an error.
CatchUnwind ==
    /\ pc = "unwinding"
    /\ result' = Err(PanicMsg)
    /\ pc' = "done"
    /\ UNCHANGED <<json, commits, map, indeg, heap, topo, visited, queued,
                   active, lane_of, pos, edges, buf, fault, run, prev,
                   caller, server>>

\* The caller calls build_lanes again with the same text: every local of the
\* previous call is gone.
Reinvoke ==
    /\ pc = "done"
    /\ run < MaxRuns
    /\ run' = run + 1
    /\ prev' = result
    /\ pc' = "start"
    /\ commits' = <<>>
    /\ map' = EmptyMap
    /\ indeg' = <<>>
    /\ heap' = <<>>
    /\ topo' = <<>>
    /\ visited' = {}
    /\ queued' = 0
    /\ active' = <<>>
    /\ lane_of' = <<>>
    /\ pos' = 0
    /\ edges' = <<>>
    /\ buf' = <<>>
    /\ fault' = FALSE
    /\ result' = Pending
    /\ UNCHANGED <<json, caller, server>>

\* The context ctx becomes the one taking steps.
Resume(ctx) ==
    /\ json' = ctx[1]
    /\ pc' = ctx[2]
    /\ commits' = ctx[3]
    /\ map' = ctx[4]
    /\ indeg' = ctx[5]
    /\ heap' = ctx[6]
    /\ topo' = ctx[7]
    /\ visited' = ctx[8]
    /\ queued' = ctx[9]
    /\ active' = ctx[10]
    /\ lane_of' = ctx[11]
    /\ pos' = ctx[12]
    /\ edges' = ctx[13]
    /\ buf' = ctx[14]
    /\ fault' = ctx[15]
    /\ result' = ctx[16]

\* The caller calls build_lanes again, with the unresolvable parent
\* identifiers taken out of the text (a text that has some).
ReinvokeStripped ==
    /\ pc = "done"
    /\ caller.mode = "plain"
    /\ run < MaxRuns
    /\ StripUnresolved(json) # json
    /\ run' = run + 1
    /\ prev' = result
    /\ caller' = [caller EXCEPT !.mode = "stripped", !.given = json]
    /\ Resume(FreshCtx(StripUnresolved(json)))
    /\ UNCHANGED server

\* After invocation A returned, the caller runs invocation B alone, on its
\* own text.
InvokeOtherAlone ==
    /\ pc = "done"
    /\ caller.mode = "plain"
    /\ Len(json.elems) <= MaxConcN
    /\ caller' = [caller EXCEPT !.mode = "other_alone", !.given = json,
                                !.alone_a = result]
    /\ Resume(FreshCtx(Reversed(json)))
    /\ UNCHANGED <<run, prev, server>>

\* The caller starts A and B again, each on its own text, at the same time.
InvokeConcurrently ==
    /\ pc = "done"
    /\ caller.mode = "other_alone"
    /\ caller' = [caller EXCEPT !.mode = "concurrent", !.alone_b = result,
                                !.live = "A", !.parked = FreshCtx(json)]
    /\ Resume(FreshCtx(caller.given))
    /\ UNCHANGED <<run, prev, server>>

\* Mutant of Switch: the active-lanes table is one table shared by all
\* invocations (a static) instead of a local.
SwitchSharingActive ==
    /\ caller.mode = "concurrent"
    /\ caller.parked[2] # "done"
    /\ caller' = [caller EXCEPT !.live = IF @ = "A" THEN "B" ELSE "A",
                                !.parked = Ctx]
    /\ Resume([caller.parked EXCEPT ![10] = active])
    /\ UNCHANGED <<run, prev, server>>

\* Lines 38-45, 48, 59, 66-68, 95-96, 135, 146: all state of an invocation
\* is its own locals, so the scheduler may run the other invocation's next
\* step at any point: the live context is parked and the parked one resumed.
Switch ==
    /\ caller.mode = "concurrent"
    /\ caller.parked[2] # "done"
    /\ caller' = [caller EXCEPT !.live = IF @ = "A" THEN "B" ELSE "A",
                                !.parked = Ctx]
    /\ Resume(caller.parked)
    /\ UNCHANGED <<run, prev, server>>

Step ==
    \/ Deserialize
    \/ BuildIndex
    \/ Pop
    \/ AppendRemaining
    \/ AssignLane
    \/ FreeParentLanes
    \/ BuildEdges
    \/ Encode
    \/ CatchUnwind

Caller == AddRecord \/ InvokeReshaped \/ Invoke

Next == Caller \/ Step

\* One invocation of build_lanes on every input.
Spec == Init /\ [][Next]_vars

\* The call is one synchronous computation: it runs until it returns.
FairSpec == Spec /\ WF_vars(Step)

NextRerun == Caller \/ Step \/ Reinvoke

\* Up to MaxRuns invocations in a row on the same input.
SpecRerun == Init /\ [][NextRerun]_vars

NextStripped == Caller \/ Step \/ ReinvokeStripped

\* An invocation, then one on the same text without its unresolvable
\* parent identifiers.
SpecStripped == Init /\ [][NextStripped]_vars

NextConcurrent == Caller \/ Step \/ InvokeOtherAlone \/ InvokeConcurrently \/ Switch

\* Two invocations alone, one after the other, then both at once, their
\* steps interleaved in every way.
SpecConcurrent == Init /\ [][NextConcurrent]_vars

\* ----------------------------------------------------------------------
\* handlers/branches.rs: get_branches and should_fetch.
\* ----------------------------------------------------------------------

\* Lines 89-90: a request for the branches of a repository arrives; with
\* auto_fetch it goes on to call should_fetch, without it "&&" skips the
\* call and no fetch is spawned.
GetBranches(t) ==
    /\ requests[t].pc = "idle"
    /\ Started < MaxCalls
    /\ \E k \in RepoKeys, af \in BOOLEAN :
          IF af
          THEN /\ requests' = [requests EXCEPT ![t] =
                      [IdleRequest EXCEPT !.pc = "lock", !.repo_key = k,
                                          !.auto_fetch = TRUE]]
               /\ UNCHANGED fetch_log
          ELSE /\ fetch_log' = Append(fetch_log,
                      [repo_key |-> k, at |-> 0, called |-> FALSE, ret |-> FALSE])
               /\ UNCHANGED requests
    /\ UNCHANGED <<tracker, tracker_lock, clock, agg_vars, lanes_vars>>

\* Mutant of Lock: the tracker is entered without waiting for the mutex.
LockNoMutex(t) ==
    /\ requests[t].pc = "lock"
    /\ tracker_lock' = <<t>>
    /\ requests' = [requests EXCEPT ![t].pc = "now"]
    /\ UNCHANGED <<tracker, clock, fetch_log, agg_vars, lanes_vars>>

\* Line 29: FETCH_TRACKER.lock() returns once no other task holds the mutex.
Lock(t) ==
    /\ requests[t].pc = "lock"
    /\ tracker_lock = <<>>
    /\ tracker_lock' = <<t>>
    /\ requests' = [requests EXCEPT ![t].pc = "now"]
    /\ UNCHANGED <<tracker, clock, fetch_log, agg_vars, lanes_vars>>

\* Line 30: Instant::now().
ReadNow(t) ==
    /\ requests[t].pc = "now"
    /\ requests' = [requests EXCEPT ![t].now = clock, ![t].pc = "get"]
    /\ UNCHANGED <<tracker, tracker_lock, clock, fetch_log, agg_vars, lanes_vars>>

\* Lines 32-36: the recorded time of the key is looked up; within the
\* cooldown the call returns false.
Get(t) ==
    /\ requests[t].pc = "get"
    /\ LET last_fetch == MapGet(tracker, requests[t].repo_key)
       IN IF /\ last_fetch # <<>>
             /\ DurationSince(requests[t].now, last_fetch[1]) < FETCH_COOLDOWN
          THEN requests' = [requests EXCEPT ![t].ret = FALSE, ![t].pc = "unlock"]
          ELSE requests' = [requests EXCEPT ![t].pc = "insert"]
    /\ UNCHANGED <<tracker, tracker_lock, clock, fetch_log, agg_vars, lanes_vars>>

\* Lines 39-40: the call records its time and returns true.
Insert(t) ==
    /\ requests[t].pc = "insert"
    /\ tracker' = MapInsert(tracker, requests[t].repo_key, requests[t].now)
    /\ requests' = [requests EXCEPT ![t].ret = TRUE, ![t].pc = "unlock"]
    /\ UNCHANGED <<tracker_lock, clock, fetch_log, agg_vars, lanes_vars>>

\* Lines 34, 40-41 and 90-93: the guard is dropped as should_fetch returns;
\* the handler spawns the background fetch exactly if it returned true.
Unlock(t) ==
    /\ requests[t].pc = "unlock"
    /\ tracker_lock' = <<>>
    /\ fetch_log' = Append(fetch_log,
          [repo_key |-> requests[t].repo_key, at |-> requests[t].now,
           called |-> TRUE, ret |-> requests[t].ret])
    /\ requests' = [requests EXCEPT ![t] = IdleRequest]
    /\ UNCHANGED <<tracker, clock, agg_vars, lanes_vars>>

\* Time passes.
Tick ==
    /\ \E d \in TickSteps :
          /\ clock + d <= MaxClock
          /\ clock' = clock + d
    /\ UNCHANGED <<tracker, tracker_lock, requests, fetch_log, agg_vars, lanes_vars>>

NextFetch ==
    \/ \E t \in Tasks : GetBranches(t)
    \/ \E t \in Tasks : Lock(t)
    \/ \E t \in Tasks : ReadNow(t)
    \/ \E t \in Tasks : Get(t)
    \/ \E t \in Tasks : Insert(t)
    \/ \E t \in Tasks : Unlock(t)
    \/ Tick

\* Requests for branches, served by concurrent tasks while time passes.
SpecFetch == Init /\ [][NextFetch]_vars

\* ----------------------------------------------------------------------
\* handlers/commits.rs (and src-tauri commands/commits.rs, the same code):
\* get_commits_all_branches.
\* ----------------------------------------------------------------------

\* Lines 90-143: the request arrives with its limit; the branches are
\* listed; without branches the empty list is returned, else one closure
\* per branch is handed to rayon.
GetCommitsAllBranches ==
    /\ agg_pc = "idle"
    /\ \E lim \in Limits, bs \in SUBSET AllBranches :
          /\ limit' = lim
          /\ max_total' = IF lim = <<>> THEN DEFAULT_LIMIT ELSE lim[1]
          /\ branches' = bs
          /\ IF bs = {}
             THEN /\ all_commits' = <<[kind |-> "ok", list |-> <<>>]>>
                  /\ agg_pc' = "done"
                  /\ UNCHANGED workers
             ELSE /\ workers' = [b \in bs |-> NewWorker]
                  /\ agg_pc' = "par_iter"
                  /\ UNCHANGED all_commits
    /\ UNCHANGED <<combined, combined_lock, fetch_vars, lanes_vars>>

\* Lines 149-154: the closure of branch b opens the repository and walks the
\* branch, up to the per-branch limit; either call may fail.
Fetch(b) ==
    /\ agg_pc = "par_iter"
    /\ workers[b].pc = "fetch"
    /\ \E h \in Histories \cup {<<0>>} :
          workers' = [workers EXCEPT ![b] =
              IF h = <<0>>
              THEN [@ EXCEPT !.pc = "failed"]
              ELSE [@ EXCEPT !.pc = "lock",
                             !.commits_for_branch =
                                 Take(h, PerBranchLimit(max_total, Cardinality(branches)))]]
    /\ UNCHANGED <<agg_pc, limit, max_total, branches, combined, combined_lock,
                   all_commits, fetch_vars, lanes_vars>>

\* Line 147: once a closure has failed, try_for_each may leave closures
\* that have not started unrun.
Skip(b) ==
    /\ agg_pc = "par_iter"
    /\ workers[b].pc = "fetch"
    /\ \E c \in branches : workers[c].pc = "failed"
    /\ workers' = [workers EXCEPT ![b].pc = "skipped"]
    /\ UNCHANGED <<agg_pc, limit, max_total, branches, combined, combined_lock,
                   all_commits, fetch_vars, lanes_vars>>

\* Line 157: combined.lock().
LockCombined(b) ==
    /\ agg_pc = "par_iter"
    /\ workers[b].pc = "lock"
    /\ combined_lock = <<>>
    /\ combined_lock' = <<b>>
    /\ workers' = [workers EXCEPT ![b].pc = "insert"]
    /\ UNCHANGED <<agg_pc, limit, max_total, branches, combined, all_commits,
                   fetch_vars, lanes_vars>>

\* Mutant of InsertCommit: the entry is inserted anew for every commit
\* (insert instead of entry().or_insert_with()).
InsertCommitAnew(b) ==
    /\ agg_pc = "par_iter"
    /\ workers[b].pc = "insert"
    /\ workers[b].i <= Len(workers[b].commits_for_branch)
    /\ LET sha == workers[b].commits_for_branch[workers[b].i]
       IN combined' = MapInsert(combined, sha,
              [commit |-> [sha |-> sha, date |-> DateOf(sha), walked_for |-> b],
               branch_set |-> {b}])
    /\ workers' = [workers EXCEPT ![b].i = @ + 1]
    /\ UNCHANGED <<agg_pc, limit, max_total, branches, combined_lock, all_commits,
                   fetch_vars, lanes_vars>>

\* Lines 158-164: one iteration of the loop over commits_for_branch: the
\* entry of the sha is created with this walk's commit unless it exists,
\* and the branch is added to its set.
InsertCommit(b) ==
    /\ agg_pc = "par_iter"
    /\ workers[b].pc = "insert"
    /\ workers[b].i <= Len(workers[b].commits_for_branch)
    /\ LET sha == workers[b].commits_for_branch[workers[b].i]
           entry == IF sha \in DOMAIN combined THEN combined[sha]
                    ELSE [commit |-> [sha |-> sha, date |-> DateOf(sha), walked_for |-> b],
                          branch_set |-> {}]
       IN combined' = MapInsert(combined, sha,
                                [entry EXCEPT !.branch_set = @ \cup {b}])
    /\ workers' = [workers EXCEPT ![b].i = @ + 1]
    /\ UNCHANGED <<agg_pc, limit, max_total, branches, combined_lock, all_commits,
                   fetch_vars, lanes_vars>>

\* Lines 165-167: the loop is over, the guard is dropped, the closure
\* returns Ok.
UnlockCombined(b) ==
    /\ agg_pc = "par_iter"
    /\ workers[b].pc = "insert"
    /\ workers[b].i > Len(workers[b].commits_for_branch)
    /\ combined_lock' = <<>>
    /\ workers' = [workers EXCEPT ![b].pc = "done"]
    /\ UNCHANGED <<agg_pc, limit, max_total, branches, combined, all_commits,
                   fetch_vars, lanes_vars>>

\* Lines 147, 168-209: every closure has returned or was left unrun; an
\* error of one of them is the response, else each commit gets its branch
\* set, the commits are sorted newest first and cut to max_total.
Respond ==
    /\ agg_pc = "par_iter"
    /\ \A b \in branches : workers[b].pc \in {"done", "failed", "skipped"}
    /\ IF \E b \in branches : workers[b].pc = "failed"
       THEN all_commits' = <<[kind |-> "err", list |-> <<>>]>>
       ELSE \E s \in SortedValues(combined) :
               all_commits' =
                   <<[kind |-> "ok",
                      list |-> Take([k \in 1..Len(s) |->
                                        [sha |-> combined[s[k]].commit.sha,
                                         date |-> combined[s[k]].commit.date,
                                         branches |-> combined[s[k]].branch_set]],
                                    max_total)]>>
    /\ agg_pc' = "done"
    /\ UNCHANGED <<limit, max_total, branches, workers, combined, combined_lock,
                   fetch_vars, lanes_vars>>

NextCombined ==
    \/ GetCommitsAllBranches
    \/ \E b \in branches : Fetch(b)
    \/ \E b \in branches : Skip(b)
    \/ \E b \in branches : LockCombined(b)
    \/ \E b \in branches : InsertCommit(b)
    \/ \E b \in branches : UnlockCombined(b)
    \/ Respond

\* One all-branches request, its closures interleaved in every way.
SpecCombined == Init /\ [][NextCombined]_vars

\* ======================================================================
\* Properties.  The graph of the input is described here from the records
\* alone, independently of the map and counters the program builds.
\* ======================================================================

Recs == json.elems
RecN == Len(Recs)
RecIdx == 0..(RecN - 1)
Rec(i) == Recs[i + 1]

\* The text is an array of commit objects.
Parses == json.kind = "array" /\ \A k \in 1..RecN : Recs[k].shape \in GoodShapes

\* The invocation has deserialized its input.
Parsed == pc \notin {"compose", "start"} /\ Parses

\* The index an identifier resolves to: that of its last occurrence.
Resolves(p) == \E i \in RecIdx : Rec(i).sha = p
Resolved(p) == CHOOSE i \in RecIdx :
                   Rec(i).sha = p /\ \A j \in RecIdx : Rec(j).sha = p => j <= i

\* The (record, parent-entry) pairs whose parent identifier resolves.
ResolvablePairs ==
    {<<c, k>> \in RecIdx \X (1..MaxRefs) :
        k <= Len(Rec(c).parents) /\ Resolves(Rec(c).parents[k])}

\* The in-set edges (child index, parent index).
InSetEdges == {<<x[1], Resolved(Rec(x[1]).parents[x[2]])>> : x \in ResolvablePairs}

\* R with the pairs joined by paths of up to 2^k of its edges.
RECURSIVE Closure(_, _)
Closure(R, k) ==
    IF k = 0 THEN R
    ELSE Closure(R \cup {z \in RecIdx \X RecIdx :
                            \E m \in RecIdx : <<z[1], m>> \in R /\ <<m, z[2]>> \in R},
                 k - 1)

\* The in-set parent references form no cycle (a self-parent is one).
Acyclic == \A i \in RecIdx : <<i, i>> \notin Closure(InSetEdges, RecN)

Emitted == {topo[k] : k \in 1..Len(topo)}
\* The first position (0-based) of commit i in the visitation order.
PosOf(i) == (CHOOSE k \in 1..Len(topo) : topo[k] = i /\ \A j \in 1..(k - 1) : topo[j] # i) - 1

\* The scheduler and the fallback are over: the visitation order is final.
OrderFinal == Parsed /\ pc \in {"assign", "free", "edges", "encode", "unwinding", "done"}

\* The decoded buffer: header and the k-th commit record (0-based).
BufCommitCount(b) == b[1].num
BufEdgeCount(b) == b[2].num
BufLane(b, k) == b[3 + 3 * k].num
BufPos(b, k) == b[4 + 3 * k].num
BufTimestamp(b, k) == b[5 + 3 * k].num
\* Number of commit records and of edge records the buffer b holds after
\* its header.
BufCommitRecords(b) == Cardinality({k \in 3..Len(b) : b[k].ty = "f64"})
BufEdgeRecords(b) == Cardinality({k \in 3..Len(b) : b[k].ty = "f32"}) \div 4

\* C1 (as claimed): every input that parses into N records returns a buffer
\* whose header commit count and commit table size are N and whose header
\* edge count and edge table size are the number of resolvable
\* (record, parent-entry) pairs.
C1_BufferForEveryParsedInput ==
    (pc = "done" /\ Parses) =>
        /\ result.kind = "ok"
        /\ BufCommitCount(result.buf) = RecN
        /\ BufCommitRecords(result.buf) = RecN
        /\ BufEdgeCount(result.buf) = Cardinality(ResolvablePairs)
        /\ BufEdgeRecords(result.buf) = Cardinality(ResolvablePairs)

\* C2: for an input whose in-set parent references form no cycle, a commit
\* is in the visitation order only after every in-set commit that names it
\* as a parent, and in the final order every in-set edge has its parent at a
\* strictly greater position than its child.
C2_ChildrenBeforeParents ==
    (Parsed /\ pc # "index" /\ Acyclic) =>
        \A e \in InSetEdges :
            /\ e[2] \in Emitted => (e[1] \in Emitted /\ PosOf(e[1]) < PosOf(e[2]))
            /\ OrderFinal => (e[2] \in Emitted /\ PosOf(e[1]) < PosOf(e[2]))

\* C2 witness: an acyclic input of three commits in which one commit is
\* the parent of the two others has been scheduled.
C2_Witness ==
    /\ OrderFinal /\ Acyclic /\ RecN = 3
    /\ \E p \in RecIdx : Cardinality({e \in InSetEdges : e[2] = p}) = 2
    /\ \E e \in InSetEdges : e[1] > e[2]

\* C3: once the scheduler and the fallback are over, the visitation order
\* holds every index 0..N-1 exactly once, whatever the input.
C3_OrderIsPermutation ==
    OrderFinal => (Len(topo) = RecN /\ Emitted = RecIdx)

\* C3 witness: an input with a cycle and a duplicate identifier, part of
\* which the queue emitted and part of which the fallback appended.
C3_Witness ==
    /\ OrderFinal /\ ~Acyclic /\ RecN = 3
    /\ 0 < queued /\ queued < RecN
    /\ \E i, j \in RecIdx : i # j /\ Rec(i).sha = Rec(j).sha

\* A straight unbranched chain of K >= 1 commits: distinct identifiers, one
\* root without parents, every other commit with exactly one parent, which
\* is in the set, and no commit the parent of two.
IsChain ==
    /\ Parses /\ RecN >= 1
    /\ \A i, j \in RecIdx : i # j => Rec(i).sha # Rec(j).sha
    /\ Cardinality({i \in RecIdx : Rec(i).parents = <<>>}) = 1
    /\ \A i \in RecIdx : Len(Rec(i).parents) <= 1
    /\ \A i \in RecIdx : Rec(i).parents # <<>> => Resolves(Rec(i).parents[1])
    /\ \A i \in RecIdx : Cardinality({e \in InSetEdges : e[2] = i}) <= 1
    /\ Acyclic

\* C4 (as claimed): for a straight chain build_lanes succeeds, emits the
\* commits tip-to-root and gives every commit lane 0.
C4_ChainUsesOneLane ==
    (pc = "done" /\ IsChain) =>
        /\ result.kind = "ok"
        /\ \A e \in InSetEdges : PosOf(e[2]) = PosOf(e[1]) + 1
        /\ \A k \in 0..(RecN - 1) : BufLane(result.buf, k) = 0

\* No parent identifier resolves within the set: every commit is a tip.
NoneResolves == Parses /\ ResolvablePairs = {}

\* (timestamp, original index) of a before that of b.
KeyBefore(a, b) ==
    \/ Rec(a).timestamp < Rec(b).timestamp
    \/ Rec(a).timestamp = Rec(b).timestamp /\ a < b

IsMergeOf(m, p1, p2) ==
    /\ Parses
    /\ Cardinality({m, p1, p2}) = 3
    /\ Cardinality({Rec(m).sha, Rec(p1).sha, Rec(p2).sha}) = 3
    /\ \A i, j \in RecIdx : i # j => Rec(i).sha # Rec(j).sha
    /\ Rec(m).parents = <<Rec(p1).sha, Rec(p2).sha>>
    /\ Rec(p1).parents = <<>> /\ Rec(p2).parents = <<>>
    /\ \A e \in InSetEdges : e[2] \in {p1, p2} => e[1] = m

\* C6 (as claimed): for such a merge build_lanes succeeds, m comes before
\* p1 and p2, and m has the lowest free lane: lane 0 when m is the only tip.
C6_MergeBeforeParents ==
    \A m, p1, p2 \in RecIdx :
        (pc = "done" /\ IsMergeOf(m, p1, p2)) =>
            /\ result.kind = "ok"
            /\ PosOf(m) < PosOf(p1) /\ PosOf(m) < PosOf(p2)
            /\ (\A i \in RecIdx \ {m} : \E e \in InSetEdges : e[2] = i)
                  => BufLane(result.buf, PosOf(m)) = 0

\* C7: a text that does not deserialize into an array of commit records is
\* answered by an error that is not the internal-fault error; nothing is
\* indexed, scheduled, allocated or encoded, no buffer is returned and no
\* fault is raised.
C7_MalformedInputIsAnError ==
    (~Parses /\ pc # "compose") =>
        /\ pc \in {"start", "done"}
        /\ commits = <<>> /\ map = EmptyMap /\ indeg = <<>> /\ heap = <<>>
        /\ topo = <<>> /\ visited = {} /\ active = <<>> /\ lane_of = <<>>
        /\ edges = <<>> /\ buf = <<>> /\ ~fault
        /\ pc = "done" =>
              /\ result.kind = "err" /\ result.buf = <<>>
              /\ result.msg \notin {"", PanicMsg}

\* C7 witness: an array of two elements, the second of which lacks a
\* required field, has been answered.
C7_Witness ==
    /\ pc = "done" /\ json.kind = "array" /\ RecN = 2
    /\ Recs[1].shape \in GoodShapes /\ Recs[2].shape \in BadShapes
    /\ result.kind = "err"

\* C8: a fault raised inside the pipeline goes nowhere but to the boundary
\* of build_lanes, which returns the internal-fault error; that error is
\* returned only for a fault (so it differs from the two validation
\* errors), and never with a buffer.
C8_FaultIsCaught ==
    /\ fault => pc \in {"unwinding", "done"}
    /\ pc = "unwinding" => (fault /\ result = Pending)
    /\ pc = "done" => (fault <=> result = Err(PanicMsg))
    /\ (pc = "done" /\ fault) => (result.kind = "err" /\ result.buf = <<>>)
    /\ result.kind = "ok" => ~fault

\* C8 witness: a fault raised in the free step of lane allocation was
\* returned as the internal-fault error.
C8_Witness ==
    /\ pc = "done" /\ fault /\ result = Err(PanicMsg)
    /\ pos > 0 /\ Len(active) > 0

\* C9: a second invocation on the same input returns what the first one
\* returned: the same error, or the same buffer.
C9_Deterministic ==
    (run > 1 /\ pc = "done") => result = prev

\* C9 witness: the second run on three tips with distinct timestamps given
\* out of order returned a buffer.
C9_Witness ==
    /\ run = 2 /\ pc = "done" /\ result.kind = "ok" /\ RecN = 3
    /\ queued = 3 /\ topo # <<0, 1, 2>>
    /\ prev.kind = "ok"

\* C10: the queue loop pops at most N times, and every invocation returns:
\* with a buffer or with an error.
C10_Terminates ==
    /\ [](Len(topo) <= Len(commits))
    /\ [](pc = "done" => result.kind \in {"ok", "err"})
    /\ (pc = "start") ~> (pc = "done")

\* C10 witness: an invocation on an input with a self-parent and a
\* two-commit cycle has returned.
C10_Witness ==
    /\ pc = "done" /\ Parses /\ RecN = 3
    /\ \E i \in RecIdx : <<i, i>> \in InSetEdges
    /\ \E i, j \in RecIdx : i # j /\ <<i, j>> \in InSetEdges /\ <<j, i>> \in InSetEdges
    /\ result.kind \in {"ok", "err"}


\* C11: an invocation on a text whose unresolvable parent identifiers were
\* removed returns what the invocation on the text itself returned.
C11_UnresolvedParentsContributeNothing ==
    (caller.mode = "stripped" /\ pc = "done") => result = prev

\* C11 witness: the text had an unresolvable identifier listed before a
\* resolvable one, and both invocations returned a buffer with an edge.
C11_Witness ==
    /\ caller.mode = "stripped" /\ pc = "done"
    /\ result.kind = "ok" /\ prev.kind = "ok" /\ edges # <<>>
    /\ \E k \in 1..Len(caller.given.elems) :
          LET ps == caller.given.elems[k].parents
          IN Len(ps) >= 2 /\ ps[1] \notin ShasOf(caller.given)
                          /\ ps[2] \in ShasOf(caller.given)

\* The parent index of the first entry of ps that resolves.
FirstResolvable(ps) ==
    Resolved(ps[CHOOSE k \in 1..Len(ps) :
                    Resolves(ps[k]) /\ \A j \in 1..(k - 1) : ~Resolves(ps[j])])

\* The number of parent entries that resolve to record i.
RefsTo(i) ==
    Cardinality({x \in ResolvablePairs : Resolved(Rec(x[1]).parents[x[2]]) = i})

\* C12: every identifier is bound to the index of its last occurrence, and
\* the readiness counters, the lane lookup and the edges use that index;
\* every record, duplicates included, has its own entry in the visitation
\* order and in the commit table.
C12_LastOccurrenceWins ==
    Parsed =>
        /\ pc # "index" =>
              /\ DOMAIN map = ShasOf(json)
              /\ \A p \in DOMAIN map : map[p] = Resolved(p)
        /\ (pc = "sched" /\ topo = <<>>) => \A i \in RecIdx : indeg[i] = RefsTo(i)
        /\ (pc = "free" /\ \E k \in 1..Len(Rec(topo[pos + 1]).parents) :
                               Resolves(Rec(topo[pos + 1]).parents[k])) =>
              lane_of[topo[pos + 1]] = lane_of[FirstResolvable(Rec(topo[pos + 1]).parents)]
        /\ (pc = "encode" \/ (pc = "done" /\ result.kind = "ok")) =>
              /\ {edges[k] : k \in 1..Len(edges)} = InSetEdges
              /\ Len(edges) = Cardinality(ResolvablePairs)
        /\ OrderFinal =>
              /\ Len(topo) = RecN
              /\ Emitted = RecIdx
        /\ (pc = "done" /\ result.kind = "ok") =>
              /\ BufCommitCount(result.buf) = RecN
              /\ BufCommitRecords(result.buf) = RecN
              /\ BufEdgeRecords(result.buf) = Cardinality(ResolvablePairs)

\* C12 witness: a buffer returned for three records, the first two with the
\* same identifier, the third naming that identifier and itself as parents;
\* the third has the lane of the second record, not of the first.
C12_Witness ==
    /\ pc = "done" /\ Parsed /\ result.kind = "ok" /\ RecN = 3
    /\ Rec(0).sha = Rec(1).sha
    /\ Rec(2).sha # Rec(1).sha
    /\ Rec(2).parents = <<Rec(0).sha, Rec(2).sha>>
    /\ edges = <<<<2, 1>>, <<2, 2>>>>
    /\ topo = <<0, 1, 2>>
    /\ BufLane(result.buf, 0) = 0
    /\ BufLane(result.buf, 1) = 1
    /\ BufLane(result.buf, 2) = 1

\* C13: every lane id in the commit table of a returned buffer is smaller
\* than the number of commits.
C13_LanesBelowCommitCount ==
    (pc = "done" /\ result.kind = "ok") =>
        \A k \in 0..(BufCommitCount(result.buf) - 1) :
            /\ BufLane(result.buf, k) < BufCommitCount(result.buf)
            /\ BufLane(result.buf, k) < RecN

\* C13 witness: a buffer for three commits whose last commit has lane 2.
C13_Witness ==
    /\ pc = "done" /\ result.kind = "ok" /\ RecN = 3
    /\ BufCommitCount(result.buf) = 3
    /\ BufLane(result.buf, 2) = 2

\* What the invocation named w returned when it ran alone.
Alone(w) == IF w = "A" THEN caller.alone_a ELSE caller.alone_b
Other(w) == IF w = "A" THEN "B" ELSE "A"

\* C14: of two invocations that run concurrently, each on its own text, each
\* returns under every interleaving of their steps what it returned when it
\* ran alone; and an invocation starts with nothing left by an earlier one.
C14_InvocationsShareNoState ==
    /\ caller.mode = "concurrent" =>
          /\ pc = "done" => result = Alone(caller.live)
          /\ caller.parked[2] = "done" => caller.parked[16] = Alone(Other(caller.live))
    /\ pc = "start" => Ctx = FreshCtx(json)

\* C14 witness: two concurrent invocations on different texts; one returned
\* a buffer with edges after the other, which is still between its steps
\* with a non-empty order, had taken steps.
C14_Witness ==
    /\ caller.mode = "concurrent"
    /\ json # caller.parked[1]
    /\ pc = "done" /\ result.kind = "ok" /\ edges # <<>>
    /\ caller.parked[2] \in {"sched", "assign", "free", "edges", "encode", "unwinding"}
    /\ caller.parked[7] # <<>>
    /\ Alone("A") # Alone("B")

\* The commits in the queue.
Queued == {heap[k].idx : k \in 1..Len(heap)}

\* C15: every pop takes the commit with the smallest (timestamp, original
\* index) pair among the commits in the queue at that moment.
C15_PopTakesSmallestKey ==
    [][(pc = "sched" /\ pc' = "sched") =>
          /\ Len(topo') = Len(topo) + 1
          /\ LET i == topo'[Len(topo')]
             IN /\ i \in Queued
                /\ \A j \in Queued \ {i} : KeyBefore(i, j)]_vars

\* C15 witness: after a pop, a commit still in the queue has a lower index
\* than the popped one and a later timestamp, and another has the popped
\* one's timestamp and a higher index.
C15_Witness ==
    /\ pc = "sched" /\ Parsed /\ Len(topo) = 1 /\ Len(heap) = 2
    /\ \E j \in Queued : j < topo[1] /\ Rec(topo[1]).timestamp < Rec(j).timestamp
    /\ \E j \in Queued : j > topo[1] /\ Rec(topo[1]).timestamp = Rec(j).timestamp

\* The in-set children of commit i.
ChildrenOf(i) == {e[1] : e \in {x \in InSetEdges : x[2] = i}}

\* C16: between the iterations of the queue loop a commit is in the queue
\* or emitted exactly if its counter is zero, and then all its in-set
\* children are visited; the queue is seeded with the commits whose counter
\* starts at zero, and an iteration pushes exactly the commits whose
\* counter it brings to zero.
C16_QueuedIffCounterZero ==
    /\ [](pc = "sched" =>
            /\ \A i \in Indices : (i \in Queued \cup Emitted) <=> indeg[i] = 0
            /\ \A i \in Queued \cup Emitted : ChildrenOf(i) \subseteq visited
            /\ Queued \cap Emitted = {}
            /\ Cardinality(Queued) = Len(heap)
            /\ Emitted = visited
            /\ topo = <<>> => Queued = {i \in Indices : RefsTo(i) = 0})
    /\ [][(pc = "sched" /\ pc' = "sched") =>
            \A i \in Indices :
                (i \in Queued' \ Queued) <=> (indeg[i] > 0 /\ indeg'[i] = 0)]_vars

\* C16 witness: a commit with two in-set children is in the queue, both
\* children emitted, while another commit still waits for its counter.
C16_Witness ==
    /\ pc = "sched" /\ Parsed /\ RecN = 3
    /\ \E i \in Queued : Cardinality(ChildrenOf(i)) = 2 /\ i \notin ChildrenOf(i)
    /\ Len(topo) = 2

\* C17: when the queue is empty, the unvisited commits are appended after
\* the emitted ones in ascending index order; when every commit was
\* emitted nothing is appended.
C17_UnvisitedAppendedInIndexOrder ==
    [][(pc = "sched" /\ pc' # "sched") =>
          /\ heap = <<>>
          /\ Len(topo') = N
          /\ SubSeq(topo', 1, Len(topo)) = topo
          /\ {topo'[k] : k \in (Len(topo) + 1)..N} = Indices \ Emitted
          /\ \A j, k \in (Len(topo) + 1)..N : j < k => topo'[j] < topo'[k]
          /\ Len(topo) = N => topo' = topo]_vars

\* C17 witness: one commit came out of the queue and two were appended,
\* the one with the later timestamp first.
C17_Witness ==
    /\ OrderFinal /\ RecN = 3 /\ queued = 1
    /\ topo = <<0, 1, 2>>
    /\ Rec(1).timestamp > Rec(2).timestamp

\* Commit i lies on a cycle of in-set parent references.
OnCycle(i) == <<i, i>> \in Closure(InSetEdges, RecN)

\* Commit i is reached through parent references from a commit on a cycle.
BelowCycle(i) ==
    \E x \in RecIdx : OnCycle(x) /\ <<x, i>> \in Closure(InSetEdges, RecN)

\* C18 (as claimed): every in-set edge with neither endpoint on a cycle has
\* the child before the parent in the visitation order.
C18_OrderLostOnlyOnCycles ==
    OrderFinal =>
        \A e \in InSetEdges :
            (~OnCycle(e[1]) /\ ~OnCycle(e[2])) => PosOf(e[1]) < PosOf(e[2])

\* C18 (amended): every in-set edge whose child neither lies on a cycle nor
\* is reached through parent references from a commit on a cycle has the
\* child before the parent in the visitation order.
C18_OrderKeptAboveCycles ==
    OrderFinal =>
        \A e \in InSetEdges :
            (~OnCycle(e[1]) /\ ~BelowCycle(e[1])) => PosOf(e[1]) < PosOf(e[2])

\* C18 witness: the order of three commits, one of them on a cycle; a child
\* above the cycle comes before its parent on the cycle although it is
\* later in the input.
C18_Witness ==
    /\ OrderFinal /\ RecN = 3 /\ queued < RecN
    /\ \E e \in InSetEdges :
          /\ ~OnCycle(e[1]) /\ ~BelowCycle(e[1]) /\ OnCycle(e[2])
          /\ e[2] < e[1] /\ PosOf(e[1]) < PosOf(e[2])

\* The commit at the allocator's cursor and the indices its parent entries
\* resolve to, in listed order (entries that do not resolve left out).
Cursor == topo[pos + 1]
CursorParents ==
    LET ps == SelectSeq(Rec(Cursor).parents, LAMBDA p : Resolves(p))
    IN [k \in 1..Len(ps) |-> Resolved(ps[k])]

\* The listed positions of the cursor's resolvable parents that have a lane.
WithLane == {k \in 1..Len(CursorParents) : lane_of[CursorParents[k]] # U16_MAX}

\* The empty slots of ActiveLanes.
EmptySlots == {li \in 0..(Len(active) - 1) : active[li + 1] = <<>>}

\* C19 (as claimed): a commit none of whose resolvable parents has a lane
\* takes the lowest empty slot or, if there is none, a new slot numbered by
\* the previous lane count; the lane is a slot of ActiveLanes, which the
\* commit then occupies.
C19_LowestEmptySlotOrNewLane ==
    [][(pc = "assign" /\ Parsed /\ WithLane = {}) =>
          /\ pc' = "free"
          /\ lane_of'[Cursor] =
                IF EmptySlots # {}
                THEN CHOOSE li \in EmptySlots : \A lj \in EmptySlots : li <= lj
                ELSE Len(active)
          /\ Len(active') = IF EmptySlots # {} THEN Len(active) ELSE Len(active) + 1
          /\ lane_of'[Cursor] < Len(active')
          /\ active'[lane_of'[Cursor] + 1] = <<Cursor>>]_vars

\* C20 (as claimed): a commit with a resolvable parent that has a lane gets
\* the lane of the first such parent in listed order; parents listed
\* before it that have no lane are passed over.
C20_FirstParentWithLane ==
    [][(pc = "assign" /\ Parsed /\ WithLane # {}) =>
          /\ pc' = "free"
          /\ lane_of'[Cursor] =
                lane_of[CursorParents[CHOOSE k \in WithLane : \A j \in WithLane : k <= j]]]_vars

\* The resolvable parents of the commit at the cursor.
CursorParentSet == {CursorParents[k] : k \in 1..Len(CursorParents)}

\* C21 (as claimed): once assigned, the commit occupies the slot of its
\* lane; the free step that follows empties the slots occupied by one of
\* its resolvable parents and leaves every other slot, the commit's own
\* included, as it was.
C21_FreeStepEmptiesParentSlotsOnly ==
    [][pc = "free" =>
          /\ active[lane_of[Cursor] + 1] = <<Cursor>>
          /\ Len(active') = Len(active)
          /\ \A k \in 1..Len(active) :
                active'[k] = IF /\ active[k] # <<>>
                                /\ active[k][1] \in CursorParentSet \ {Cursor}
                             THEN <<>>
                             ELSE active[k]]_vars

\* C22 (as claimed): every input that parses and has a parent identifier
\* resolving within the set is answered by the internal-fault error, and
\* every buffer returned has edge count 0.
C22_EveryResolvingParentFaults ==
    (pc = "done" /\ Parses) =>
        /\ ResolvablePairs # {} => (fault /\ result = Err(PanicMsg))
        /\ result.kind = "ok" => BufEdgeCount(result.buf) = 0

\* The indices the parent entries of commit c resolve to, in listed order.
ResolvedParents(c) ==
    LET ps == SelectSeq(Rec(c).parents, LAMBDA p : Resolves(p))
    IN [k \in 1..Len(ps) |-> Resolved(ps[k])]

\* Commit c meets a parent without a lane: its first resolvable parent is
\* not before it in the visitation order (or is c itself), or another of its
\* resolvable parents comes after it.
MeetsUnassignedParent(c) ==
    LET ps == ResolvedParents(c)
    IN /\ ps # <<>>
       /\ \/ PosOf(ps[1]) >= PosOf(c)
          \/ \E k \in 1..Len(ps) : PosOf(ps[k]) > PosOf(c)

\* C22 (amended): an input that parses is answered by the internal-fault
\* error, and no buffer, exactly if some commit meets a parent without a
\* lane, which every cycle-free input with a resolving parent identifier
\* does; a buffer returned has as many edges as parent entries resolve.
C22_FaultsIffUnassignedParentMet ==
    (pc = "done" /\ Parses) =>
        /\ (\E c \in RecIdx : MeetsUnassignedParent(c))
              <=> (fault /\ result = Err(PanicMsg))
        /\ (Acyclic /\ ResolvablePairs # {}) => \E c \in RecIdx : MeetsUnassignedParent(c)
        /\ result.kind \in {"ok", "err"}
        /\ result.kind = "err" => result = Err(PanicMsg) /\ result.buf = <<>>
        /\ result.kind = "ok" =>
              BufEdgeCount(result.buf) = Cardinality(ResolvablePairs)

\* C22 witness: a cycle-free input of three commits with two resolving
\* parent entries was answered by the internal-fault error.
C22_Witness ==
    /\ pc = "done" /\ Parses /\ RecN = 3 /\ Acyclic
    /\ Cardinality(ResolvablePairs) = 2
    /\ fault /\ result = Err(PanicMsg)

\* C23: every edge built has a child index and a parent index below N, and
\* the error of the encoder's bounds check is never returned.
C23_EdgeIndicesInBounds ==
    /\ (Parsed /\ pc \in {"encode", "done"} /\ ~fault) =>
          /\ Len(edges) = Cardinality(ResolvablePairs)
          /\ \A k \in 1..Len(edges) : edges[k][1] < N /\ edges[k][2] < N
    /\ (pc = "done" /\ result.kind = "err") =>
          result.msg \in {PanicMsg, ParseError(json)}
    /\ \A from, to \in 0..MaxN : result.msg # EdgeMsg(from, to, N)

\* C23 witness: a buffer returned with two edges, one of them with the
\* highest index as child and as parent.
C23_Witness ==
    /\ pc = "done" /\ Parsed /\ result.kind = "ok" /\ RecN = 3
    /\ Len(edges) = 2
    /\ \E k \in 1..Len(edges) : edges[k] = <<2, 2>>

\* The edges the records ask for: ascending child index, then the order of
\* the child's parent list.
RECURSIVE EdgesOfFirst(_)
EdgesOfFirst(n) ==
    IF n = 0 THEN <<>>
    ELSE EdgesOfFirst(n - 1)
         \o [k \in 1..Len(ResolvedParents(n - 1)) |-> <<n - 1, ResolvedParents(n - 1)[k]>>]

\* C24: a returned buffer is 8 + 14 N + 24 E bytes long, starts with N and
\* E, and its k-th commit record has position k and the lane and timestamp
\* of the commit at rank k of the visitation order.
C24_BufferLayout ==
    (pc = "done" /\ result.kind = "ok") =>
        LET b == result.buf
            E == Len(EdgesOfFirst(RecN))
        IN /\ ByteLen(b) = 8 + 14 * RecN + 24 * E
           /\ Len(b) = 2 + 3 * RecN + 6 * E
           /\ b[1] = U32(RecN)
           /\ b[2] = U32(E)
           /\ Len(topo) = RecN
           /\ \A k \in 0..(RecN - 1) :
                 /\ b[3 + 3 * k] = U16(lane_of[topo[k + 1]])
                 /\ b[4 + 3 * k] = U32(k)
                 /\ b[5 + 3 * k] = F64(Rec(topo[k + 1]).timestamp)

\* C24 witness: a buffer for three commits and two edges whose visitation
\* order is not the input order and whose timestamps differ.
C24_Witness ==
    /\ pc = "done" /\ result.kind = "ok" /\ RecN = 3
    /\ topo = <<2, 0, 1>>
    /\ BufEdgeCount(result.buf) = 2
    /\ Rec(2).timestamp # Rec(0).timestamp
    /\ lane_of[2] # lane_of[0]

\* C25: the edge records come in edge-construction order; each holds the
\* child's and the parent's input index, then the child's lane, 0.5, the
\* parent's lane and 0.5, the lanes being those of the commit table.
C25_EdgeRecords ==
    (pc = "done" /\ result.kind = "ok") =>
        LET b == result.buf
            es == EdgesOfFirst(RecN)
        IN /\ BufEdgeCount(b) = Len(es)
           /\ \A j \in 1..Len(es) :
                 LET at == 2 + 3 * RecN + 6 * (j - 1)
                 IN /\ b[at + 1] = U32(es[j][1])
                    /\ b[at + 2] = U32(es[j][2])
                    /\ b[at + 3] = F32(BufLane(b, PosOf(es[j][1])), 1)
                    /\ b[at + 4] = F32(1, 2)
                    /\ b[at + 5] = F32(BufLane(b, PosOf(es[j][2])), 1)
                    /\ b[at + 6] = F32(1, 2)

\* C25 witness: a buffer with three edges of one child, the second to a
\* parent on another lane than the child.
C25_Witness ==
    /\ pc = "done" /\ result.kind = "ok" /\ RecN = 3
    /\ EdgesOfFirst(RecN) = <<<<2, 0>>, <<2, 1>>, <<2, 2>>>>
    /\ lane_of[1] # lane_of[2]

\* The commits appended by the fallback: the order after the first "queued"
\* entries, which the queue phase emitted.
ByQueue == {topo[k] : k \in 1..queued}
ByFallback == {topo[k] : k \in (queued + 1)..Len(topo)}

\* C26: in the final order every queue-emitted commit precedes every
\* appended one; the parent of an in-set edge whose child was queue-emitted
\* comes strictly later than the child; the parent of an in-set edge whose
\* child was appended was appended too.
C26_QueuePhaseBeforeFallback ==
    OrderFinal =>
        /\ ByQueue \cap ByFallback = {}
        /\ ByQueue \cup ByFallback = RecIdx
        /\ \A i \in ByQueue, j \in ByFallback : PosOf(i) < PosOf(j)
        /\ \A e \in InSetEdges :
              /\ e[1] \in ByQueue => PosOf(e[1]) < PosOf(e[2])
              /\ e[1] \in ByFallback => e[2] \in ByFallback

\* C26 witness: an input with a cycle; a queue-emitted child has one parent
\* emitted by the queue after it and one appended, and an appended child
\* comes after its appended parent.
C26_Witness ==
    /\ OrderFinal /\ RecN = 3 /\ ~Acyclic
    /\ \E e \in InSetEdges : e[1] \in ByQueue /\ e[2] \in ByFallback
    /\ \E e \in InSetEdges : e[1] \in ByFallback /\ e[1] # e[2]
                                /\ PosOf(e[2]) < PosOf(e[1])

\* The number of parent entries of commit c that resolve to commit i.
EntriesTo(c, i) ==
    Cardinality({k \in 1..Len(ResolvedParents(c)) : ResolvedParents(c)[k] = i})

\* C29: a commit is in the queue at most once and in the order at most
\* once, never in both, and each pop lowers the counter of every commit by
\* the number of the popped commit's parent entries that resolve to it: no
\* decrement finds a counter at zero.
C29_PushedAndPoppedOnce ==
    /\ [](pc = "sched" =>
            /\ Cardinality(Queued) = Len(heap)
            /\ Cardinality(Emitted) = Len(topo)
            /\ Queued \cap Emitted = {})
    /\ [][(pc = "sched" /\ pc' = "sched") =>
            LET c == topo'[Len(topo')]
            IN /\ c \in Queued /\ c \notin Emitted /\ c \notin Queued'
               /\ \A i \in Indices :
                     /\ indeg[i] >= EntriesTo(c, i)
                     /\ indeg'[i] = indeg[i] - EntriesTo(c, i)]_vars

\* C29 witness: a commit that another names twice as its parent is in the
\* queue after that one pop, beside two records with one identifier.
C29_Witness ==
    /\ pc = "sched" /\ Parsed /\ RecN = 3 /\ Len(topo) >= 1
    /\ \E c \in Emitted, i \in Queued : EntriesTo(c, i) = 2
    /\ \E i, j \in RecIdx : i # j /\ Rec(i).sha = Rec(j).sha

Granted(k) ==
    {i \in 1..Len(fetch_log) :
        fetch_log[i].called /\ fetch_log[i].ret /\ fetch_log[i].repo_key = k}

\* The tasks whose call has recorded its time for key k and is about to
\* return true.
Returning(k) ==
    {t \in Tasks : /\ requests[t].pc = "unlock" /\ requests[t].ret
                   /\ requests[t].repo_key = k}

\* C27: two calls of should_fetch that return true for one key are at
\* least the cooldown apart, whichever tasks made them; a call returns false
\* exactly if a call for the same key returned true less than the cooldown
\* before it, and then leaves the recorded times as they are; a call that
\* returns true records its time for its key and no other.
C27_OneFetchPerCooldown ==
    /\ [](\A k \in RepoKeys :
            /\ \A i, j \in Granted(k) :
                  i < j => fetch_log[j].at - fetch_log[i].at >= FETCH_COOLDOWN
            /\ \A j \in 1..Len(fetch_log) :
                  (fetch_log[j].called /\ fetch_log[j].repo_key = k) =>
                      (~fetch_log[j].ret <=>
                          \E i \in Granted(k) :
                              /\ i < j
                              /\ fetch_log[j].at - fetch_log[i].at < FETCH_COOLDOWN
                              /\ fetch_log[j].at >= fetch_log[i].at)
            /\ k \in DOMAIN tracker <=> (Granted(k) # {} \/ Returning(k) # {})
            /\ k \in DOMAIN tracker =>
                  tracker[k] =
                      IF Returning(k) # {}
                      THEN requests[CHOOSE t \in Returning(k) : TRUE].now
                      ELSE fetch_log[CHOOSE i \in Granted(k) :
                                        \A j \in Granted(k) : j <= i].at)
    /\ [][\A t \in Tasks :
            /\ (requests[t].pc = "get" /\ requests'[t].pc = "unlock") =>
                  /\ ~requests'[t].ret
                  /\ tracker' = tracker
            /\ (requests[t].pc = "insert" /\ requests'[t].pc = "unlock") =>
                  /\ requests'[t].ret
                  /\ tracker'[requests[t].repo_key] = requests[t].now
                  /\ requests[t].now = clock \/ requests[t].now < clock
                  /\ \A k \in DOMAIN tracker \ {requests[t].repo_key} :
                        tracker'[k] = tracker[k]
            /\ (requests[t].pc = "idle" /\ requests'[t].pc = "idle") =>
                  (tracker' = tracker \/ \E u \in Tasks \ {t} : requests[u].pc = "insert")]_vars

\* C27 witness: for one key a call returned true, a later one false and one
\* a cooldown after the first true again, and meanwhile a call for the other
\* key returned true; now two tasks call for the same key, one inside
\* should_fetch and one waiting for the mutex.
C27_Witness ==
    /\ Len(fetch_log) = 3
    /\ fetch_log[1] = [repo_key |-> "repo_a", at |-> 0, called |-> TRUE, ret |-> TRUE]
    /\ fetch_log[2] = [repo_key |-> "repo_b", at |-> 29, called |-> TRUE, ret |-> TRUE]
    /\ fetch_log[3] = [repo_key |-> "repo_a", at |-> 29, called |-> TRUE, ret |-> FALSE]
    /\ requests["t1"].pc = "unlock" /\ requests["t1"].ret
    /\ requests["t1"].repo_key = "repo_a" /\ requests["t1"].now = 60
    /\ requests["t2"].pc = "lock" /\ requests["t2"].repo_key = "repo_a"

\* The commits walked for branch b that its closure has merged so far, and
\* all the commits walked for it.
MergedFor(b) ==
    {workers[b].commits_for_branch[k] : k \in 1..(workers[b].i - 1)}
WalkedFor(b) ==
    {workers[b].commits_for_branch[k] :
        k \in 1..Len(workers[b].commits_for_branch)}

\* The response of a request that no closure failed.
Responded == agg_pc = "done" /\ all_commits[1].kind = "ok"

\* C28: however the per-branch closures interleave, the combined map holds
\* for each sha the set of the branches whose walk has merged it, and the
\* response lists each sha at most once, each commit with exactly the
\* branches whose fetched history contains it, and at most max_total
\* commits, which is 2000 when the request gives no limit.
C28_EachShaOnceWithItsBranches ==
    /\ (agg_pc # "idle" /\ limit = <<>>) => max_total = DEFAULT_LIMIT
    /\ \A sha \in DOMAIN combined :
          combined[sha].branch_set = {b \in branches : sha \in MergedFor(b)}
    /\ Responded =>
          LET list == all_commits[1].list
          IN /\ \A i, j \in 1..Len(list) : i # j => list[i].sha # list[j].sha
             /\ \A i \in 1..Len(list) :
                   list[i].branches = {b \in branches : list[i].sha \in WalkedFor(b)}
             /\ Len(list) <= max_total
             /\ Len(list) <= Cardinality(UNION {WalkedFor(b) : b \in branches})

\* Three branches share commits, the limit of 2 cuts the three merged
\* commits to the two newest, and the closure of feat merged before the
\* one of main.
C28_Witness ==
    /\ Responded
    /\ limit = <<2>>
    /\ branches = AllBranches
    /\ workers["main"].commits_for_branch = <<3, 1>>
    /\ workers["dev"].commits_for_branch = <<3, 2>>
    /\ workers["feat"].commits_for_branch = <<1, 3>>
    /\ combined[3].commit.walked_for = "feat"
    /\ Len(all_commits[1].list) = 2
    /\ all_commits[1].list[1] = [sha |-> 3, date |-> 2, branches |-> AllBranches]
    /\ all_commits[1].list[2] = [sha |-> 1, date |-> 1, branches |-> {"main", "feat"}]

========================================================================
